---- MODULE Spec2Model ----
(***************************************************************************)
(* Model of the request execution pipeline of package cast (cast.go):     *)
(* Cast.Do and Cast.genReply.  One Do call runs against a configured      *)
(* client; the transport, the request body source, the hooks and the      *)
(* circuit breaker are external collaborators whose outcomes are inputs.  *)
(***************************************************************************)
EXTENDS Integers, Sequences, FiniteSets

\* ------------------------------------------------------------------ bounds
MaxRetry == 2
MaxHooks == 2

\* ------------------------------------------------------------ value spaces
NoCircuit == "<nil>"
StatusCodes == {200, 500}

Err(kind, at, idx) == [kind |-> kind, at |-> at, idx |-> idx]
NoErr == Err("nil", 0, 0)

\* A nil *Response is the record with attempt = 0.
NilResp == [attempt |-> 0, raw |-> FALSE, statusCode |-> 0, body |-> 0]

\* What http.Client.Do can hand back: a response, an error, or (redirect
\* policy failure) both.
TransportResults ==
    [shape : {"resp", "both"}, status : StatusCodes]
        \cup {[shape |-> "err", status |-> 0]}

Event(e, n, ok) == [e |-> e, n |-> n, ok |-> ok]

VARIABLES
    c,          \* the Cast: retry, stg, hook chains, h (registry), defaultCircuitName
    request,    \* the Request: circuitName, rawRequest (built or not), and
                \* body: the ReqBody() call whose bytes rawRequest.Body holds
                \* (0 the one of Do, k the one of iteration k)
    pc,         \* position of the Do call
    i,          \* index of the hook the current hook loop is at
    count,      \* genReply: count
    err,        \* genReply: err
    resp,       \* genReply: resp
    cb,         \* genReply: cb of the current iteration
    fallback,   \* genReply: fallback of the current iteration
    isRetry,    \* genReply: isRetry of the current iteration
    invoked,    \* the retry hooks invoked in the current iteration, in order
    ret,        \* what Do returned: [rep, err]
    hist,       \* one record per attempt made
    events,     \* pipeline events of the call, in order
    peer,       \* a second Do call on the same client, with its own Request:
                \* its position and its genReply locals count, err, resp
    ctxDone     \* the ctx passed to Do has been cancelled

vars == <<c, request, pc, i, count, err, resp, cb, fallback, isRetry,
          invoked, ret, hist, events, peer, ctxDone>>

\* ------------------------------------------------------------ construction
\* New(sl...): the setters fix the client once.  The before-request, request
\* and response chains are drawn empty or with MaxHooks hooks each, all three
\* alike; the retry chain independently.
Configs ==
    {cfg \in [retry : (-1)..MaxRetry,
              stg : BOOLEAN,
              beforeRequestHooks : {0, MaxHooks},
              requestHooks : {0, MaxHooks},
              responseHooks : {0, MaxHooks},
              retryHooks : {0, MaxHooks},
              h : {{}, {"d"}, {"a", "d"}},
              defaultCircuitName : {"d"}] :
        /\ cfg.requestHooks = cfg.beforeRequestHooks
        /\ cfg.responseHooks = cfg.beforeRequestHooks}

Init ==
    /\ c \in Configs
    /\ request \in [circuitName : {"", "a"}, rawRequest : {FALSE}, body : {0}]
    /\ pc = "start"
    /\ i = 0
    /\ count = 0
    /\ err = NoErr
    /\ resp = NilResp
    /\ cb = NoCircuit
    /\ fallback = FALSE
    /\ isRetry = FALSE
    /\ invoked = <<>>
    /\ ret = [rep |-> NilResp, err |-> NoErr]
    /\ hist = <<>>
    /\ events = <<>>
    /\ peer = [pc |-> "idle", count |-> 0, err |-> NoErr, resp |-> NilResp]
    /\ ctxDone = FALSE

\* ------------------------------------------------------------------- Do
\* Do's return statement: (rep, e) goes to the caller.
Return(rep, e) ==
    /\ ret' = [rep |-> rep, err |-> e]
    /\ pc' = "done"

\* Variant: the range loop skips a hook.
NextHookSkipping(idx) == idx + 2

\* `for _, hook := range chain`: the hook after the idx-th one.
NextHook(idx) == idx + 1

\* Variant: a hook's error does not stop the chain.
AfterHookIgnoringError(ok, k, n, chainPc, nextPc) ==
    IF k >= n THEN nextPc ELSE chainPc

\* Where Do goes after the k-th hook of a chain of n hooks returned.
AfterHook(ok, k, n, chainPc, nextPc) ==
    IF ~ok THEN "done"
    ELSE IF k >= n THEN nextPc
    ELSE chainPc

\* Where Do goes when it reaches a chain of n hooks.
EnterChain(n, chainPc, nextPc) == IF n = 0 THEN nextPc ELSE chainPc

\* One iteration of one of Do's three hook loops.
HookStep(kind, n, chainPc, nextPc) ==
    /\ pc = chainPc
    /\ \E ok \in BOOLEAN :
         LET k == NextHook(i)
             to == AfterHook(ok, k, n, chainPc, nextPc)
         IN /\ events' = Append(events, Event(kind, k, ok))
            /\ pc' = to
            /\ i' = IF to = chainPc THEN k ELSE 0
            /\ ret' = IF ok THEN ret
                      ELSE [rep |-> NilResp, err |-> Err(kind, 0, k)]

\* Variant: the error of the first ReqBody() is logged and not returned.
ReqBodyInitUnchecked ==
    /\ pc = "start"
    /\ \E ok \in BOOLEAN :
         /\ events' = Append(events, Event("reqbody", 0, ok))
         /\ pc' = EnterChain(c.beforeRequestHooks, "before", "build")
    /\ UNCHANGED <<ctxDone, peer, c, request, i, count, err, resp, cb, fallback,
                   isRetry, invoked, ret, hist>>

\* body, err := request.ReqBody()
ReqBodyInit ==
    /\ pc = "start"
    /\ \E ok \in BOOLEAN :
         /\ events' = Append(events, Event("reqbody", 0, ok))
         /\ IF ok
              THEN /\ pc' = EnterChain(c.beforeRequestHooks, "before", "build")
                   /\ ret' = ret
              ELSE Return(NilResp, Err("reqbody", 0, 0))
    /\ UNCHANGED <<ctxDone, peer, c, request, i, count, err, resp, cb, fallback,
                   isRetry, invoked, hist>>

BeforeRequestHook ==
    /\ HookStep("before", c.beforeRequestHooks, "before", "build")
    /\ UNCHANGED <<ctxDone, peer, c, request, count, err, resp, cb, fallback,
                   isRetry, invoked, hist>>

\* request.rawRequest, err = http.NewRequestWithContext(...)
NewRequest ==
    /\ pc = "build"
    /\ \E ok \in BOOLEAN :
         /\ events' = Append(events, Event("build", 0, ok))
         /\ IF ok
              THEN /\ request' = [request EXCEPT !.rawRequest = TRUE]
                   /\ pc' = EnterChain(c.requestHooks, "request", "loop")
                   /\ ret' = ret
              ELSE /\ request' = request
                   /\ Return(NilResp, Err("newrequest", 0, 0))
    /\ UNCHANGED <<ctxDone, peer, c, i, count, err, resp, cb, fallback, isRetry,
                   invoked, hist>>

RequestHook ==
    /\ HookStep("request", c.requestHooks, "request", "loop")
    /\ UNCHANGED <<ctxDone, peer, c, request, count, err, resp, cb, fallback,
                   isRetry, invoked, hist>>

\* Variant: a call whose last attempt was voted to be retried returns an
\* error of its own.
GenReplyReturnExhausted ==
    /\ pc = "after"
    /\ IF err # NoErr \/ isRetry
         THEN Return(NilResp, IF err # NoErr THEN err ELSE Err("exhausted", count, 0))
         ELSE /\ pc' = EnterChain(c.responseHooks, "response", "return")
              /\ ret' = ret
    /\ cb' = NoCircuit
    /\ fallback' = FALSE
    /\ isRetry' = FALSE
    /\ invoked' = <<>>
    /\ UNCHANGED <<ctxDone, peer, c, request, i, count, err, resp, hist, events>>

\* rep, err := c.genReply(request); if err != nil { return nil, err }
\* genReply's return ends the life of the locals of its last iteration.
GenReplyReturn ==
    /\ pc = "after"
    /\ IF err # NoErr
         THEN Return(NilResp, err)
         ELSE /\ pc' = EnterChain(c.responseHooks, "response", "return")
              /\ ret' = ret
    /\ cb' = NoCircuit
    /\ fallback' = FALSE
    /\ isRetry' = FALSE
    /\ invoked' = <<>>
    /\ UNCHANGED <<ctxDone, peer, c, request, i, count, err, resp, hist, events>>

\* for _, hook := range c.responseHooks { hook(c, rep) }
ResponseHook ==
    /\ HookStep("response", c.responseHooks, "response", "return")
    /\ UNCHANGED <<ctxDone, peer, c, request, count, err, resp, cb, fallback,
                   isRetry, invoked, hist>>

\* return rep, nil
DoReturn ==
    /\ pc = "return"
    /\ Return(resp, NoErr)
    /\ UNCHANGED <<ctxDone, peer, c, request, i, count, err, resp, cb, fallback,
                   isRetry, invoked, hist, events>>

\* ------------------------------------------------------------- genReply
\* Variants of the loop bound: one iteration too many, one too few.
LoopGuardOneMore(cnt) == cnt <= c.retry + 1
LoopGuardOneLess(cnt) == cnt < c.retry

\* The loop runs another iteration unless `count > c.retry`.
LoopGuard(cnt) == cnt <= c.retry

\* c.h.GetCircuit(name): the breaker registered under name, or nil.
GetCircuit(name) == IF name \in c.h THEN name ELSE NoCircuit

\* Variant: a request whose own circuit is not registered falls back to
\* the default circuit.
ResolveCircuitFallingBack ==
    IF request.circuitName # "" /\ request.circuitName \in c.h
    THEN request.circuitName
    ELSE GetCircuit(c.defaultCircuitName)

\* The breaker of this iteration: the request's circuit name when it has
\* one, else the client's default.
ResolveCircuit ==
    IF request.circuitName # ""
    THEN GetCircuit(request.circuitName)
    ELSE GetCircuit(c.defaultCircuitName)

\* c.client.Do(request.rawRequest) of attempt k with transport result t.
ClientDo(t, k) ==
    [raw |-> t.shape \in {"resp", "both"},
     status |-> t.status,
     err |-> IF t.shape \in {"err", "both"} THEN Err("transport", k, 0) ELSE NoErr]

\* The transport call of attempt k, through cb.Execute when a breaker is
\* resolved.  A breaker that does not admit the call never runs the closure:
\* its error comes back through the fallback function and `fallback` stays
\* false.
Execute(cbv, admit, t, k) ==
    LET r == ClientDo(t, k)
    IN IF cbv # NoCircuit /\ ~admit
       THEN [raw |-> FALSE, status |-> 0, err |-> Err("circuit", k, 0),
             fallback |-> FALSE, called |-> FALSE]
       ELSE [raw |-> r.raw, status |-> r.status, err |-> r.err,
             fallback |-> cbv # NoCircuit /\ r.err # NoErr, called |-> TRUE]

\* Variant: a failure to read or close the body does not end the call.
BuildResponseKeepsGoing(x, k, readOk, closeOk) ==
    IF x.raw
    THEN [resp |-> [attempt |-> k, raw |-> TRUE, statusCode |-> x.status,
                    body |-> k],
          err |-> IF ~readOk THEN Err("read", k, 0)
                  ELSE IF ~closeOk THEN Err("close", k, 0) ELSE NoErr,
          returned |-> FALSE]
    ELSE [resp |-> [attempt |-> k, raw |-> FALSE, statusCode |-> 0, body |-> 0],
          err |-> x.err, returned |-> FALSE]

\* resp = new(Response) ... resp.statusCode = rawResponse.StatusCode, for the
\* transport outcome x of attempt k.  `returned` says genReply returned
\* (nil, err) from inside.
BuildResponse(x, k, readOk, closeOk) ==
    IF x.raw
    THEN IF ~readOk
         THEN [resp |-> NilResp, err |-> Err("read", k, 0), returned |-> TRUE]
         ELSE IF ~closeOk
         THEN [resp |-> NilResp, err |-> Err("close", k, 0), returned |-> TRUE]
         ELSE [resp |-> [attempt |-> k, raw |-> TRUE, statusCode |-> x.status,
                         body |-> k],
               err |-> NoErr, returned |-> FALSE]
    ELSE [resp |-> [attempt |-> k, raw |-> FALSE, statusCode |-> 0, body |-> 0],
          err |-> x.err, returned |-> FALSE]

\* if fallback && cb.IsOpen() { break }
HardStop(fb, isOpen) == fb /\ isOpen

\* Variants of the retry decision: the hooks' vote is not read; the budget
\* is cut one short; the backoff strategy is not looked at.
ShouldRetryUnvoted(voted, cnt) == cnt <= c.retry /\ c.stg
ShouldRetryShort(voted, cnt) == voted /\ cnt < c.retry /\ c.stg

ShouldRetryWithoutStrategy(voted, cnt) == voted /\ cnt <= c.retry

\* if isRetry && count <= c.retry && c.stg != nil { wait; continue }
ShouldRetry(voted, cnt) == voted /\ cnt <= c.retry /\ c.stg

\* Variant: a retry sends the request with the body it already has.
RetryBodyStale(cnt, old) == old

\* if count >= 1 { body, err = request.ReqBody(); ...
\* request.rawRequest.Body = ioutil.NopCloser(bytes.NewReader(body)) }
RetryBody(cnt, old) == IF cnt >= 1 THEN cnt + 1 ELSE old

\* The context the transport call runs under: the guarded call gets
\* context.TODO(), the direct call only the ctx carried by rawRequest.
ExecuteContext(cbv) == IF cbv # NoCircuit THEN "TODO" ELSE "request"

HistEntry(x, io, cbv, body) ==
    [out |-> IF ~x.called THEN "reject"
             ELSE IF x.raw /\ x.err # NoErr THEN "both"
             ELSE IF x.raw THEN "resp" ELSE "err",
     status |-> x.status, io |-> io, cb |-> cbv, open |-> FALSE,
     vote |-> "skip", ctx |-> ExecuteContext(cbv), body |-> body]

\* if count > c.retry { break }
LoopExit ==
    /\ pc = "loop"
    /\ ~LoopGuard(count)
    /\ pc' = "after"
    /\ UNCHANGED <<ctxDone, peer, c, request, i, count, err, resp, cb, fallback,
                   isRetry, invoked, ret, hist, events>>

\* A retry's request.ReqBody() failed: return nil, err.
AttemptReqBodyFail ==
    /\ pc = "loop"
    /\ LoopGuard(count)
    /\ count >= 1
    /\ cb' = ResolveCircuit
    /\ err' = Err("reqbody", count + 1, 0)
    /\ events' = Append(events, Event("reqbody", count + 1, FALSE))
    /\ Return(NilResp, err')
    /\ UNCHANGED <<ctxDone, peer, c, request, i, count, resp, fallback, isRetry,
                   invoked, hist>>

\* One iteration up to and including the building of resp.
AttemptSend ==
    /\ pc = "loop"
    /\ LoopGuard(count)
    /\ \E admit \in BOOLEAN, t \in TransportResults,
          readOk \in BOOLEAN, closeOk \in BOOLEAN :
         LET k == count + 1
             cbv == ResolveCircuit
             x == Execute(cbv, admit, t, k)
             b == BuildResponse(x, k, readOk, closeOk)
             io == IF ~x.raw THEN "none"
                   ELSE IF ~readOk THEN "read"
                   ELSE IF ~closeOk THEN "close" ELSE "ok"
             body == IF count >= 1 THEN <<Event("reqbody", k, TRUE)>> ELSE <<>>
             call == IF x.called THEN <<Event("transport", k, TRUE)>> ELSE <<>>
         IN \* inputs that are not read are fixed, not enumerated
            /\ (cbv = NoCircuit => admit)
            /\ (~x.called => t.shape = "err")
            /\ (~x.raw => readOk /\ closeOk)
            /\ (~readOk => closeOk)
            \* rawRequest carries ctx: a call on a cancelled ctx fails
            /\ (ctxDone => t.shape = "err")
            /\ cb' = cbv
            /\ fallback' = x.fallback
            /\ count' = k
            /\ err' = b.err
            /\ resp' = b.resp
            /\ request' = [request EXCEPT !.body = RetryBody(count, @)]
            /\ hist' = Append(hist, HistEntry(x, io, cbv, request'.body))
            /\ events' = events \o body \o call
            /\ IF b.returned
                 THEN Return(NilResp, b.err)
                 ELSE /\ pc' = "decide"
                      /\ ret' = ret
    /\ UNCHANGED <<ctxDone, peer, c, i, isRetry, invoked>>

\* Variant: the loop over the retry hooks has no break.
RunRetryHooksNoBreak(v, n, r, e) ==
    [h \in 1..n |-> [hook |-> h, resp |-> r, err |-> e, vote |-> h = v]]

\* for _, hook := range c.retryHooks { if hook(resp, err) { isRetry = true;
\* break } }, for a chain of n hooks of which the v-th is the first to vote
\* retry (v = 0: none does): the calls made, with their arguments and votes.
RunRetryHooks(v, n, r, e) ==
    [h \in 1..(IF v > 0 THEN v ELSE n) |->
        [hook |-> h, resp |-> r, err |-> e, vote |-> h = v]]

\* The breaker check, the retry hooks and the decision to go round again.
\* isOpen is what the resolved breaker reports at this point (its state is
\* the collaborator's, moved by this call's Execute and by every other
\* caller); v is the first retry hook that votes retry, 0 when none does.
AttemptDecide ==
    /\ pc = "decide"
    /\ \E isOpen \in BOOLEAN, v \in 0..c.retryHooks :
         LET stop == HardStop(fallback, isOpen)
             voted == ~stop /\ v > 0
         IN /\ (cb = NoCircuit => ~isOpen)
            /\ (stop => v = 0)
            /\ isRetry' = voted
            /\ invoked' = IF stop THEN <<>>
                          ELSE RunRetryHooks(v, c.retryHooks, resp, err)
            /\ hist' = [hist EXCEPT ![Len(hist)] =
                          [@ EXCEPT !.open = isOpen,
                                    !.vote = IF stop THEN "skip"
                                             ELSE IF v > 0 THEN "yes" ELSE "no"]]
            /\ pc' = IF ~stop /\ ShouldRetry(voted, count) THEN "backoff" ELSE "after"
    /\ UNCHANGED <<ctxDone, peer, c, request, i, count, err, resp, cb, fallback, ret,
                   events>>

\* Variant: the strategy is handed the 0-based number of the attempt.
BackoffZeroBased ==
    /\ pc = "backoff"
    /\ events' = Append(events, Event("wait", count - 1, TRUE))
    /\ pc' = "loop"
    /\ cb' = NoCircuit
    /\ fallback' = FALSE
    /\ isRetry' = FALSE
    /\ invoked' = <<>>
    /\ UNCHANGED <<ctxDone, peer, c, request, i, count, err, resp, ret, hist>>

\* <-time.After(c.stg.backoff(count)); continue
Backoff ==
    /\ pc = "backoff"
    /\ events' = Append(events, Event("wait", count, TRUE))
    /\ pc' = "loop"
    /\ cb' = NoCircuit
    /\ fallback' = FALSE
    /\ isRetry' = FALSE
    /\ invoked' = <<>>
    /\ UNCHANGED <<ctxDone, peer, c, request, i, count, err, resp, ret, hist>>

Next ==
    \/ ReqBodyInit
    \/ BeforeRequestHook
    \/ NewRequest
    \/ RequestHook
    \/ LoopExit
    \/ AttemptReqBodyFail
    \/ AttemptSend
    \/ AttemptDecide
    \/ Backoff
    \/ GenReplyReturn
    \/ ResponseHook
    \/ DoReturn

Spec == Init /\ [][Next]_vars

\* ------------------------------------------------- a second, concurrent call
\* Variant: the attempt counter is kept where both calls reach it.
PeerAttemptSharedCounter ==
    /\ peer.pc = "loop"
    /\ LoopGuard(peer.count)
    /\ peer' = [peer EXCEPT !.count = @ + 1]
    /\ count' = count + 1
    /\ UNCHANGED <<ctxDone, c, request, pc, i, err, resp, cb, fallback, isRetry,
                   invoked, ret, hist, events>>

\* The peer's Do up to the attempt loop: ReqBody, before-request hooks,
\* NewRequestWithContext, request hooks; any of them failing returns.
PeerDo ==
    /\ peer.pc = "idle"
    /\ \E ok \in BOOLEAN :
         peer' = [peer EXCEPT !.pc = IF ok THEN "loop" ELSE "done"]
    /\ UNCHANGED <<ctxDone, c, request, pc, i, count, err, resp, cb, fallback,
                   isRetry, invoked, ret, hist, events>>

\* One whole iteration of the peer's attempt loop, on the peer's own count,
\* err and resp.
PeerAttempt ==
    /\ peer.pc = "loop"
    /\ LoopGuard(peer.count)
    /\ \E admit \in BOOLEAN, t \in TransportResults, readOk \in BOOLEAN,
          closeOk \in BOOLEAN, isOpen \in BOOLEAN, voted \in BOOLEAN :
         LET k == peer.count + 1
             cbv == GetCircuit(c.defaultCircuitName)
             x == Execute(cbv, admit, t, k)
             b == BuildResponse(x, k, readOk, closeOk)
             stop == HardStop(x.fallback, isOpen)
         IN /\ (cbv = NoCircuit => admit /\ ~isOpen)
            /\ (~x.called => t.shape = "err")
            /\ (~x.raw => readOk /\ closeOk)
            /\ (~readOk => closeOk)
            /\ (c.retryHooks = 0 => ~voted)
            /\ peer' = [pc |-> IF b.returned THEN "done"
                               ELSE IF ~stop /\ ShouldRetry(voted, k) THEN "loop"
                               ELSE "after",
                        count |-> k, err |-> b.err, resp |-> b.resp]
    /\ UNCHANGED <<ctxDone, c, request, pc, i, count, err, resp, cb, fallback,
                   isRetry, invoked, ret, hist, events>>

\* The peer leaves the loop at its head, or returns from genReply and Do.
PeerReturn ==
    /\ \/ peer.pc = "after"
       \/ peer.pc = "loop" /\ ~LoopGuard(peer.count)
    /\ peer' = [peer EXCEPT !.pc = "done"]
    /\ UNCHANGED <<ctxDone, c, request, pc, i, count, err, resp, cb, fallback,
                   isRetry, invoked, ret, hist, events>>

\* Two calls share one client that has hooks, a backoff strategy and a
\* breaker under its default circuit name.
InitConc ==
    /\ Init
    /\ c.retry \in {-1, 1}
    /\ c.stg
    /\ c.beforeRequestHooks = MaxHooks
    /\ c.retryHooks = MaxHooks
    /\ c.h = {"d"}
    /\ request.circuitName = ""

NextConc ==
    \/ Next
    \/ PeerDo
    \/ PeerAttempt
    \/ PeerReturn

SpecConc == InitConc /\ [][NextConc]_vars

\* ------------------------------------------------------------ cancellation
\* The caller cancels the ctx it passed to Do.
Cancel ==
    /\ pc # "done"
    /\ ~ctxDone
    /\ ctxDone' = TRUE
    /\ UNCHANGED <<peer, c, request, pc, i, count, err, resp, cb, fallback,
                   isRetry, invoked, ret, hist, events>>

NextCtx ==
    \/ Next
    \/ Cancel

SpecCtx == Init /\ [][NextCtx]_vars

\* ---------------------------------------------------------- observations
Done == pc = "done"

EventsOf(kind) == {j \in DOMAIN events : events[j].e = kind}

\* Transport calls made so far.
TransportCalls == Cardinality(EventsOf("transport"))

\* A retry iteration that returned at its ReqBody() call.
RetryBodyFailed ==
    \E j \in DOMAIN events :
        events[j].e = "reqbody" /\ events[j].n >= 1 /\ ~events[j].ok

\* Iterations of the attempt loop entered so far.
Iterations == Len(hist) + (IF RetryBodyFailed THEN 1 ELSE 0)

HookKinds == {"before", "request", "response"}

\* No ReqBody call, hook or request construction failed in this call.
CleanCall == \A j \in DOMAIN events : events[j].ok

\* ------------------------------------------------------------------ C1
\* C1: a Do call makes at most retry + 1 iterations of the attempt loop, and
\* so at most retry + 1 transport calls, whatever the transport, the breaker
\* and the hooks do.
C1_AtMostRetryPlusOne ==
    /\ Iterations <= c.retry + 1
    /\ TransportCalls <= c.retry + 1

\* The budget is used up: MaxRetry + 1 transport calls were made.
C1_Witness ==
    /\ Done
    /\ c.retry = MaxRetry
    /\ TransportCalls = MaxRetry + 1

\* ------------------------------------------------------------------ C2
\* C2: once the resolved breaker reports open after an attempt, whatever that
\* attempt was (failed, succeeded or rejected), the call makes no further
\* attempt.
C2_NoAttemptAfterOpen ==
    \A j \in 1..(Len(hist) - 1) : ~hist[j].open

\* ------------------------------------------------------------------ C3
\* C3: an attempt on which no retry hook voted retry is the last one: no
\* backoff wait follows it and the loop is left.
C3_NoVoteEndsLoop ==
    \A j \in DOMAIN hist :
        ((j < Len(hist) \/ pc # "decide") /\ hist[j].vote # "yes")
            => /\ j = Len(hist)
               /\ pc \in {"after", "response", "return", "done"}
               /\ \A w \in EventsOf("wait") : events[w].n # j

\* A first attempt nobody voted to retry ended a call that had budget left
\* and a backoff strategy.
C3_Witness ==
    /\ Done
    /\ c.retry = MaxRetry
    /\ c.stg
    /\ Len(hist) = 1
    /\ hist[1].vote = "no"
    /\ hist[1].out = "err"

\* ------------------------------------------------------------------ C4
\* C4: the first before-request, request or response hook that fails ends Do
\* with exactly its error and a nil Response; nothing runs after it, and a
\* failing before-request or request hook means no transport call was made.
C4_FirstHookErrorEndsDo ==
    \A j \in DOMAIN events :
        (events[j].e \in HookKinds /\ ~events[j].ok)
            => /\ j = Len(events)
               /\ Done
               /\ ret = [rep |-> NilResp, err |-> Err(events[j].e, 0, events[j].n)]
               /\ (events[j].e \in {"before", "request"}
                       => TransportCalls = 0 /\ hist = <<>>)

\* The first response hook failed on a valid 200 Response.
C4_Witness ==
    /\ Done
    /\ c.responseHooks = MaxHooks
    /\ ret.err = Err("response", 0, 1)
    /\ resp.raw
    /\ resp.statusCode = 200

\* ------------------------------------------------------------------ C5
\* C5: when the transport call of the last attempt returned an error, Do
\* returns that error with a nil Response and runs no response hook, for
\* every shape of transport result (the body of a raw response that came
\* with the error being read and closed without failure).
C5_LastTransportErrorReturned ==
    (Done /\ hist # <<>> /\ ~RetryBodyFailed
          /\ hist[Len(hist)].out \in {"err", "both"}
          /\ hist[Len(hist)].io \in {"none", "ok"})
        => /\ ret = [rep |-> NilResp, err |-> Err("transport", Len(hist), 0)]
           /\ EventsOf("response") = {}

\* ------------------------------------------------------------------ C6
\* C6: an attempt whose body read or close failed is the last one; Do
\* returns that error with a nil Response, no retry hook was evaluated for
\* it, no backoff wait follows it and no response hook runs.
C6_BodyErrorIsFatal ==
    \A j \in DOMAIN hist :
        hist[j].io \in {"read", "close"}
            => /\ j = Len(hist)
               /\ Done
               /\ ret = [rep |-> NilResp, err |-> Err(hist[j].io, j, 0)]
               /\ hist[j].vote = "skip"
               /\ invoked = <<>>
               /\ \A w \in EventsOf("wait") : events[w].n # j
               /\ EventsOf("response") = {}

\* The body read of a first attempt failed with the whole budget left.
C6_Witness ==
    /\ Done
    /\ c.retry = MaxRetry
    /\ c.stg
    /\ c.retryHooks = MaxHooks
    /\ Len(hist) = 1
    /\ hist[1].io = "read"
    /\ hist[1].status = 500

\* ------------------------------------------------------------------ C7
\* C7: when the first ReqBody() fails, Do returns its error with a nil
\* Response and nothing else happened: no hook ran, no transport request was
\* built and no transport call was made.
C7_InitialBodyErrorEndsDo ==
    (events # <<>> /\ events[1].e = "reqbody" /\ ~events[1].ok)
        => /\ Len(events) = 1
           /\ Done
           /\ ret = [rep |-> NilResp, err |-> Err("reqbody", 0, 0)]
           /\ ~request.rawRequest
           /\ hist = <<>>

\* The first ReqBody() failed on a client that has hooks and a budget.
C7_Witness ==
    /\ Done
    /\ ret.err = Err("reqbody", 0, 0)
    /\ c.beforeRequestHooks = MaxHooks
    /\ c.retry = MaxRetry

\* ------------------------------------------------------------------ C8
\* Where an event belongs in the pipeline.
Rank(ev) ==
    CASE ev.e = "reqbody" /\ ev.n = 0 -> 0
      [] ev.e = "before" -> 1
      [] ev.e = "build" -> 2
      [] ev.e = "request" -> 3
      [] ev.e = "response" -> 5
      [] OTHER -> 4

\* The number of hooks registered in a chain.
ChainLen(kind) ==
    CASE kind = "before" -> c.beforeRequestHooks
      [] kind = "request" -> c.requestHooks
      [] kind = "response" -> c.responseHooks

\* C8: the events of a Do call are ordered: before-request hooks, the
\* building of the transport request, request hooks, the attempts, response
\* hooks (so the hooks of a chain are consecutive events); within a chain the
\* hooks run in registration order, each at most once; the request is built
\* after the whole before-request chain, the first attempt starts after the
\* whole request chain, and response hooks run only after the loop.
C8_PipelineOrder ==
    /\ \A j \in DOMAIN events :
           LET ev == events[j]
               first == j = 1
           IN /\ (~first => Rank(events[j - 1]) <= Rank(ev))
              /\ (ev.e \in HookKinds
                     => /\ ev.n = (IF ~first /\ events[j - 1].e = ev.e
                                   THEN events[j - 1].n + 1 ELSE 1)
                        /\ ev.n <= ChainLen(ev.e))
              /\ (ev.e = "build"
                     => /\ ~first
                        /\ events[j - 1] =
                             (IF c.beforeRequestHooks > 0
                              THEN Event("before", c.beforeRequestHooks, TRUE)
                              ELSE Event("reqbody", 0, TRUE)))
              /\ ((~first /\ Rank(ev) = 4 /\ Rank(events[j - 1]) < 4)
                     => events[j - 1] =
                          (IF c.requestHooks > 0
                           THEN Event("request", c.requestHooks, TRUE)
                           ELSE Event("build", 0, TRUE)))
              /\ (ev.e = "response" => pc \in {"response", "return", "done"})
    /\ (hist # <<>> => request.rawRequest)

\* A call with full chains and more than one attempt returned a Response.
C8_Witness ==
    /\ Done
    /\ ret.err = NoErr
    /\ c.beforeRequestHooks = MaxHooks
    /\ Cardinality(EventsOf("response")) = MaxHooks
    /\ Len(hist) = MaxRetry + 1

\* ------------------------------------------------------------------ C9
Min(a, b) == IF a < b THEN a ELSE b

\* The attempts made so far are those of the scenario "status 500 on the
\* first k attempts, status 200 on attempt k + 1", with a retry chain that
\* votes retry exactly on status 500.
Scenario500Then200(k) ==
    \A j \in 1..Min(Len(hist), k + 1) :
        /\ hist[j].out = "resp"
        /\ hist[j].io = "ok"
        /\ hist[j].status = (IF j <= k THEN 500 ELSE 200)
        /\ (hist[j].vote = "yes") = (hist[j].status = 500)

\* C9: with retry = R, a backoff strategy and a retry hook voting retry
\* exactly on status 500, a transport that answers 500 k times (k <= R) and
\* then 200 makes Do return the 200 Response of attempt k + 1 with a nil
\* error after exactly k + 1 transport calls (no ReqBody call, hook or
\* request construction failing).
C9_RetryUntil200 ==
    (Done /\ c.stg /\ c.retryHooks > 0 /\ CleanCall) =>
    \A k \in 0..c.retry :
        Scenario500Then200(k)
            => /\ Len(hist) = k + 1
               /\ TransportCalls = k + 1
               /\ ret = [rep |-> [attempt |-> k + 1, raw |-> TRUE,
                                  statusCode |-> 200, body |-> k + 1],
                         err |-> NoErr]

\* The spec's case: retry = 2 and 500, 500, 200.
C9_Witness ==
    /\ Done
    /\ c.retry = 2
    /\ Len(hist) = 3
    /\ hist[1].status = 500 /\ hist[2].status = 500 /\ hist[3].status = 200
    /\ \A j \in 1..3 : hist[j].out = "resp"
    /\ ret.err = NoErr
    /\ ret.rep.statusCode = 200
    /\ TransportCalls = 3

\* ----------------------------------------------------------------- C10
\* The attempts made so far are those of the scenario "no breaker, the
\* transport always returns a network error, the retry chain always votes
\* retry".
ScenarioAlwaysFailing ==
    /\ c.retry >= 0
    /\ c.retryHooks > 0
    /\ ResolveCircuit = NoCircuit
    /\ \A j \in DOMAIN hist :
           hist[j].out = "err" /\ hist[j].vote = "yes"

\* C10, as stated: in that scenario Do makes exactly retry + 1 attempts and
\* returns the last transport error.
C10_AsStated ==
    (Done /\ CleanCall /\ ScenarioAlwaysFailing)
        => /\ Len(hist) = c.retry + 1
           /\ TransportCalls = c.retry + 1
           /\ ret = [rep |-> NilResp, err |-> Err("transport", c.retry + 1, 0)]

\* C10, amended: the same, for a client that has a backoff strategy.
C10_ExhaustsBudget ==
    (Done /\ CleanCall /\ ScenarioAlwaysFailing /\ c.stg)
        => /\ Len(hist) = c.retry + 1
           /\ TransportCalls = c.retry + 1
           /\ ret = [rep |-> NilResp, err |-> Err("transport", c.retry + 1, 0)]

\* The whole budget was spent on network errors.
C10_Witness ==
    /\ Done
    /\ c.retry = MaxRetry
    /\ c.stg
    /\ ResolveCircuit = NoCircuit
    /\ Len(hist) = MaxRetry + 1
    /\ \A j \in DOMAIN hist : hist[j].out = "err" /\ hist[j].vote = "yes"
    /\ ret.err = Err("transport", MaxRetry + 1, 0)

\* ----------------------------------------------------------------- C11
\* Attempt j went through a breaker, its transport call failed and the
\* breaker reported open right after it (the body of a raw response that came
\* with the error being read and closed without failure).
FailedAndOpen(j) ==
    /\ hist[j].cb # NoCircuit
    /\ hist[j].out \in {"err", "both"}
    /\ hist[j].io \in {"none", "ok"}
    /\ hist[j].open

\* C11: such an attempt is the last one: the retry hooks are not consulted
\* for it, no backoff wait follows it, and Do returns its error.
C11_FailedAndOpenIsLast ==
    \A j \in DOMAIN hist :
        FailedAndOpen(j)
            => /\ j = Len(hist)
               /\ hist[j].vote = "skip"
               /\ \A w \in EventsOf("wait") : events[w].n # j
               /\ pc \in {"after", "response", "return", "done"}
               /\ (Done => ret = [rep |-> NilResp,
                                  err |-> Err("transport", j, 0)])

\* ----------------------------------------------------------------- C12
\* C12: in every interleaving of two Do calls on one client, no step writes
\* the client, and no step of one call writes the other call's attempt
\* counter, Response or error.
C12_CallsDoNotInterfere ==
    [][/\ c' = c
       /\ (peer' # peer => <<count, err, resp, ret>>' = <<count, err, resp, ret>>)
       /\ (<<pc, count, err, resp, ret>>' # <<pc, count, err, resp, ret>>
              => peer' = peer)]_vars

\* Both calls are inside their attempt loops, at different counts.
C12_Witness ==
    /\ pc = "decide"
    /\ peer.pc = "loop"
    /\ count = 2
    /\ peer.count = 1
    /\ resp # peer.resp

\* ----------------------------------------------------------------- C13
\* C13: once the ctx passed to Do is cancelled the call starts no backoff
\* wait and does not go from a wait it is in to another attempt, and every
\* breaker-guarded transport call was given the caller's ctx.
C13_CancellationHonoured ==
    [][/\ (ctxDone /\ pc # "backoff" => pc' # "backoff")
       /\ (ctxDone /\ pc = "backoff" => pc' # "loop")
       /\ \A j \in DOMAIN hist' :
              hist'[j].cb # NoCircuit => hist'[j].ctx = "caller"]_vars

\* ----------------------------------------------------------------- C14
\* Do got as far as the attempt loop.
ReachedLoop == \A j \in DOMAIN events : Rank(events[j]) < 4 => events[j].ok

\* C14: on a client without a backoff strategy a Do call that reaches the
\* loop with retry >= 0 makes exactly one attempt, and never waits, whatever
\* the retry hooks vote.
C14_NoStrategyOneAttempt ==
    ~c.stg
        => /\ Iterations <= 1
           /\ EventsOf("wait") = {}
           /\ (Done /\ ReachedLoop /\ c.retry >= 0 => Len(hist) = 1)

\* A retry hook voted retry with budget left, and the call still ended after
\* its first attempt.
C14_Witness ==
    /\ Done
    /\ ~c.stg
    /\ c.retry = MaxRetry
    /\ Len(hist) = 1
    /\ hist[1].vote = "yes"

\* ----------------------------------------------------------------- C15
\* The backoff waits of the call, in order.
Waits == SelectSeq(events, LAMBDA ev : ev.e = "wait")

\* C15: the k-th wait of a call is backoff(k) and comes right after attempt
\* k; it is followed by the next iteration of the loop and by nothing else,
\* so a call of n iterations waited n - 1 times, with 1..n-1 in order, and
\* never after its last one.
C15_OneWaitBetweenAttempts ==
    /\ \A m \in DOMAIN Waits : Waits[m].n = m
    /\ Len(Waits) = (IF Iterations = 0 THEN 0
                     ELSE IF pc = "loop" THEN Iterations
                     ELSE Iterations - 1)
    /\ \A j \in DOMAIN events :
           /\ (events[j].e = "wait"
                  => /\ hist[events[j].n].vote = "yes"
                     /\ (j = Len(events) => pc = "loop")
                     /\ (j < Len(events)
                            => /\ events[j + 1].e = "reqbody"
                               /\ events[j + 1].n = events[j].n + 1))
           /\ (events[j].e = "reqbody" /\ events[j].n >= 2
                  => events[j - 1] = Event("wait", events[j].n - 1, TRUE))

\* A call that used its whole budget waited before each retry.
C15_Witness ==
    /\ Done
    /\ Len(hist) = MaxRetry + 1
    /\ Len(Waits) = MaxRetry
    /\ Waits[MaxRetry].n = MaxRetry

\* ----------------------------------------------------------------- C16
\* C16: every iteration after the first starts with a ReqBody() call of its
\* own, made before its transport call, and sends the bytes of that call; if
\* that ReqBody() fails Do returns its error with a nil Response and makes no
\* further transport call.
C16_RetryRematerializesBody ==
    /\ \A k \in DOMAIN hist :
           /\ hist[k].body = (IF k = 1 THEN 0 ELSE k)
           /\ (k >= 2 => \E j \in DOMAIN events :
                             events[j] = Event("reqbody", k, TRUE))
    /\ \A j \in DOMAIN events :
           /\ (events[j].e = "transport" /\ events[j].n >= 2
                  => events[j - 1] = Event("reqbody", events[j].n, TRUE))
           /\ (events[j].e = "reqbody" /\ events[j].n >= 1 /\ ~events[j].ok
                  => /\ j = Len(events)
                     /\ Done
                     /\ ret = [rep |-> NilResp,
                               err |-> Err("reqbody", events[j].n, 0)]
                     /\ Len(hist) = events[j].n - 1)

\* A retry sent freshly materialized bytes.
C16_Witness ==
    /\ Done
    /\ Len(hist) = MaxRetry + 1
    /\ hist[MaxRetry + 1].out = "resp"
    /\ request.body = MaxRetry + 1

\* The ReqBody() of a retry failed.
C16_WitnessFailure ==
    /\ Done
    /\ Len(hist) = 1
    /\ ret.err = Err("reqbody", 2, 0)

\* ----------------------------------------------------------------- C17
\* The circuit name an attempt goes by.
ResolvedName ==
    IF request.circuitName # "" THEN request.circuitName
    ELSE c.defaultCircuitName

\* C17: the breaker of every attempt is the one registered under the
\* request's circuitName when that is non-empty and under the client's
\* default circuit name otherwise; with no breaker registered under that name
\* the transport call is made directly: nothing is rejected, no failure is
\* marked for the breaker and its state is not consulted.
C17_CircuitResolution ==
    /\ \A j \in DOMAIN hist :
           /\ (ResolvedName \in c.h => hist[j].cb = ResolvedName)
           /\ (ResolvedName \notin c.h
                  => /\ hist[j].cb = NoCircuit
                     /\ hist[j].out # "reject"
                     /\ hist[j].ctx = "request"
                     /\ ~hist[j].open
                     /\ \E e \in EventsOf("transport") : events[e].n = j)
    /\ (pc = "decide" /\ ResolvedName \notin c.h => ~fallback /\ cb = NoCircuit)

\* A request names a circuit that is not registered while the default one
\* is: its failing attempts went out directly and were retried.
C17_Witness ==
    /\ Done
    /\ request.circuitName = "a"
    /\ c.h = {"d"}
    /\ Len(hist) = MaxRetry + 1
    /\ \A j \in DOMAIN hist : hist[j].out = "err" /\ hist[j].cb = NoCircuit

\* A request that names a registered circuit goes through it, not through
\* the default one.
C17_WitnessNamed ==
    /\ Done
    /\ request.circuitName = "a"
    /\ c.h = {"a", "d"}
    /\ hist # <<>>
    /\ hist[1].cb = "a"
    /\ hist[1].out = "reject"

C19_ResponseXorError ==
    /\ (Done => (ret.rep = NilResp) # (ret.err = NoErr))
    /\ (Done /\ ret.rep # NilResp => hist # <<>> /\ ret.rep.attempt = Len(hist))
    /\ (EventsOf("response") # {} => resp # NilResp)

\* ----------------------------------------------------------------- C20
\* Every attempt of the call got a response without error from the
\* transport, and a retry hook voted retry each time.
ScenarioAlwaysRetried ==
    /\ c.retry >= 0
    /\ Len(hist) = c.retry + 1
    /\ \A j \in DOMAIN hist :
           hist[j].out = "resp" /\ hist[j].io = "ok" /\ hist[j].vote = "yes"

\* C20: a call that used up its budget on responses that were all voted to
\* be retried runs the response hooks and returns the Response of its last
\* attempt with a nil error; and whatever Response Do returns has the status
\* code and body of the last attempt.
C20_ExhaustionIsNotAnError ==
    /\ (Done /\ CleanCall /\ ScenarioAlwaysRetried)
           => /\ ret.err = NoErr
              /\ ret.rep = [attempt |-> c.retry + 1, raw |-> TRUE,
                            statusCode |-> hist[c.retry + 1].status,
                            body |-> c.retry + 1]
              /\ Cardinality(EventsOf("response")) = c.responseHooks
    /\ (Done /\ ret.rep # NilResp)
           => /\ hist # <<>>
              /\ ret.rep.attempt = Len(hist)
              /\ ret.rep.statusCode = hist[Len(hist)].status
              /\ ret.rep.body = (IF hist[Len(hist)].out \in {"resp", "both"}
                                 THEN Len(hist) ELSE 0)

\* Status 500 on every attempt of a full budget: Do returned the last 500.
C20_Witness ==
    /\ Done
    /\ c.retry = MaxRetry
    /\ c.responseHooks = MaxHooks
    /\ Len(hist) = MaxRetry + 1
    /\ \A j \in DOMAIN hist :
           hist[j].out = "resp" /\ hist[j].status = 500 /\ hist[j].vote = "yes"
    /\ ret.err = NoErr
    /\ ret.rep.statusCode = 500
    /\ ret.rep.attempt = MaxRetry + 1

====
